---- MODULE Spec2Model ----
(***************************************************************************)
(* Model of the agentation server: the in-memory store (store.ts), the     *)
(* HTTP routes (http.ts) and the MCP tools (the MCP half of index.ts).     *)
(*                                                                         *)
(* JavaScript objects are functions from property names to values; an      *)
(* absent (undefined) property is a name outside the DOMAIN.  A Map is the *)
(* sequence of its entries in insertion order.  Strings that the code      *)
(* builds by interpolation are sequences of tokens, so that a template     *)
(* literal is a concatenation.                                             *)
(***************************************************************************)
EXTENDS Integers, Sequences, FiniteSets, TLC

\* ---------------------------------------------------------------- bounds
MaxClock == 1
MaxRandom == 1
MaxSessions == 2
MaxAnnotations == 2
MaxThread == 2
MaxRequests == 4
MaxArgs == 3
MaxInflight == 2

VARIABLES sessions, annotations, now, req, resp, nreq, inflight,
          argv, argi, port, pc, httpServer, mcpServer

vars == <<sessions, annotations, now, req, resp, nreq, inflight,
          argv, argi, port, pc, httpServer, mcpServer>>
\* the process: its arguments, the position of parseArgs in them, the port,
\* the position of main, and which servers it has started
cli == <<argv, argi, port, pc, httpServer, mcpServer>>
store == <<sessions, annotations, now, req, resp, nreq, inflight>>

\* ------------------------------------------------------- JavaScript values
Times == 0..MaxClock
RandomSuffixes == 0..(MaxRandom - 1)
Ids == Times \X RandomSuffixes

EmptyObject == <<>>
ObjectAssign(target, source) == source @@ target
Has(obj, k) == k \in DOMAIN obj
Falsy(obj, k) == ~Has(obj, k) \/ obj[k] = <<>>
Pick(obj, keys) == [k \in (DOMAIN obj) \cap keys |-> obj[k]]
Optional(k, present, v) == IF present THEN k :> v ELSE EmptyObject

\* Map<string, T>
MapHas(m, k) == \E i \in 1..Len(m) : m[i].key = k
MapIndex(m, k) == CHOOSE i \in 1..Len(m) : m[i].key = k
MapGet(m, k) == m[MapIndex(m, k)].value
MapSet(m, k, v) ==
  IF MapHas(m, k)
    THEN [m EXCEPT ![MapIndex(m, k)] = [key |-> k, value |-> v]]
    ELSE Append(m, [key |-> k, value |-> v])
MapValues(m) == [i \in 1..Len(m) |-> m[i].value]
MapKeys(m) == {m[i].key : i \in 1..Len(m)}

ArrayFilter(arr, Keep(_)) == SelectSeq(arr, Keep)

Elems(arr) == {arr[i] : i \in 1..Len(arr)}

NotFound == [found |-> FALSE]
Found(v) == [found |-> TRUE, value |-> v]

\* ------------------------------------------------------------- store.ts
generateId(t, rnd) == <<t, rnd>>

\* createSession that stores the session without its projectId
createSession_storesNoProjectId(ss, url, hasProjectId, projectId, t, rnd) ==
  LET id == generateId(t, rnd)
      stored == [id |-> id, url |-> url, status |-> "active", createdAt |-> t]
      session == stored @@ Optional("projectId", hasProjectId, projectId)
  IN [ret |-> session, sessions |-> MapSet(ss, id, stored)]

createSession(ss, url, hasProjectId, projectId, t, rnd) ==
  LET id == generateId(t, rnd)
      session == [id |-> id, url |-> url, status |-> "active", createdAt |-> t]
                   @@ Optional("projectId", hasProjectId, projectId)
  IN [ret |-> session, sessions |-> MapSet(ss, id, session)]

getSession(ss, id) ==
  IF MapHas(ss, id) THEN Found(MapGet(ss, id)) ELSE NotFound

getSessionWithAnnotations(ss, as, id) ==
  IF ~MapHas(ss, id) THEN NotFound
  ELSE LET SameSession(a) == a.sessionId = id
           sessionAnnotations == ArrayFilter(MapValues(as), SameSession)
       IN Found(ObjectAssign(MapGet(ss, id), [annotations |-> sessionAnnotations]))

updateSessionStatus(ss, id, status, t) ==
  IF ~MapHas(ss, id) THEN [ret |-> NotFound, sessions |-> ss]
  ELSE LET session == ObjectAssign(MapGet(ss, id), [status |-> status, updatedAt |-> t])
       IN [ret |-> Found(session), sessions |-> MapSet(ss, id, session)]

listSessions(ss) == MapValues(ss)

\* addAnnotation without the session lookup
addAnnotation_noSessionCheck(ss, as, sessionId, data, t, rnd) ==
  LET annotation == ObjectAssign(data,
                      [id |-> generateId(t, rnd), sessionId |-> sessionId,
                       status |-> "pending", createdAt |-> t])
  IN [ret |-> Found(annotation), annotations |-> MapSet(as, annotation.id, annotation)]

\* addAnnotation that spreads the body after the generated fields
addAnnotation_bodyWins(ss, as, sessionId, data, t, rnd) ==
  IF ~MapHas(ss, sessionId) THEN [ret |-> NotFound, annotations |-> as]
  ELSE LET annotation == ObjectAssign([id |-> generateId(t, rnd), sessionId |-> sessionId,
                                       status |-> "pending", createdAt |-> t], data)
       IN [ret |-> Found(annotation),
           annotations |-> MapSet(as, annotation.id, annotation)]

\* addAnnotation that accepts annotations for active sessions only
addAnnotation_requiresActive(ss, as, sessionId, data, t, rnd) ==
  IF ~MapHas(ss, sessionId) \/ MapGet(ss, sessionId).status # "active"
    THEN [ret |-> NotFound, annotations |-> as]
  ELSE LET annotation == ObjectAssign(data,
                           [id |-> generateId(t, rnd), sessionId |-> sessionId,
                            status |-> "pending", createdAt |-> t])
       IN [ret |-> Found(annotation),
           annotations |-> MapSet(as, annotation.id, annotation)]

addAnnotation(ss, as, sessionId, data, t, rnd) ==
  IF ~MapHas(ss, sessionId) THEN [ret |-> NotFound, annotations |-> as]
  ELSE LET annotation == ObjectAssign(data,
                           [id |-> generateId(t, rnd), sessionId |-> sessionId,
                            status |-> "pending", createdAt |-> t])
       IN [ret |-> Found(annotation),
           annotations |-> MapSet(as, annotation.id, annotation)]

getAnnotation(as, id) ==
  IF MapHas(as, id) THEN Found(MapGet(as, id)) ELSE NotFound

\* updateAnnotationStatus that refuses to leave resolved or dismissed
updateAnnotationStatus_rejectsTerminal(as, id, status, hasResolvedBy, resolvedBy, t) ==
  IF ~MapHas(as, id) THEN [ret |-> NotFound, annotations |-> as]
  ELSE IF MapGet(as, id).status \in {"resolved", "dismissed"}
    THEN [ret |-> NotFound, annotations |-> as]
  ELSE LET a1 == ObjectAssign(MapGet(as, id), [status |-> status, updatedAt |-> t])
           a2 == IF status = "resolved" \/ status = "dismissed"
                   THEN ObjectAssign(a1,
                          [resolvedAt |-> t,
                           resolvedBy |-> IF hasResolvedBy THEN resolvedBy ELSE "agent"])
                   ELSE a1
       IN [ret |-> Found(a2), annotations |-> MapSet(as, id, a2)]

updateAnnotationStatus(as, id, status, hasResolvedBy, resolvedBy, t) ==
  IF ~MapHas(as, id) THEN [ret |-> NotFound, annotations |-> as]
  ELSE LET a1 == ObjectAssign(MapGet(as, id), [status |-> status, updatedAt |-> t])
           a2 == IF status = "resolved" \/ status = "dismissed"
                   THEN ObjectAssign(a1,
                          [resolvedAt |-> t,
                           resolvedBy |-> IF hasResolvedBy THEN resolvedBy ELSE "agent"])
                   ELSE a1
       IN [ret |-> Found(a2), annotations |-> MapSet(as, id, a2)]

updateAnnotation(as, id, data, t) ==
  IF ~MapHas(as, id) THEN [ret |-> NotFound, annotations |-> as]
  ELSE LET annotation == ObjectAssign(ObjectAssign(MapGet(as, id), data), [updatedAt |-> t])
       IN [ret |-> Found(annotation), annotations |-> MapSet(as, id, annotation)]

addThreadMessage(as, annotationId, role, content, t, rnd) ==
  IF ~MapHas(as, annotationId) THEN [ret |-> NotFound, annotations |-> as]
  ELSE LET annotation == MapGet(as, annotationId)
           message == [id |-> generateId(t, rnd), role |-> role,
                       content |-> content, timestamp |-> t]
           thread == IF Has(annotation, "thread") THEN annotation.thread ELSE <<>>
           a2 == ObjectAssign(annotation,
                   [thread |-> Append(thread, message), updatedAt |-> t])
       IN [ret |-> Found(a2), annotations |-> MapSet(as, annotationId, a2)]

\* getPendingAnnotations with a filter that ignores the session
getPendingAnnotations_anySession(as, sessionId) ==
  LET Pending(a) == a.status = "pending"
  IN ArrayFilter(MapValues(as), Pending)

getPendingAnnotations(as, sessionId) ==
  LET Pending(a) == a.sessionId = sessionId /\ a.status = "pending"
  IN ArrayFilter(MapValues(as), Pending)

getSessionAnnotations(as, sessionId) ==
  LET SameSession(a) == a.sessionId = sessionId
  IN ArrayFilter(MapValues(as), SameSession)

\* -------------------------------------------------------------- http.ts
JSONstringify(data, indent) == [indent |-> indent, json |-> data]
JSONparse(text) == text.json

RawJson(obj) == [text |-> "json", value |-> obj]
RawEmpty == [text |-> ""]
RawInvalid == [text |-> "{oops"]

parseBody(raw) ==
  IF raw.text = "" THEN [ok |-> TRUE, value |-> EmptyObject]
  ELSE IF raw.text = "json" THEN [ok |-> TRUE, value |-> raw.value]
  ELSE [ok |-> FALSE, message |-> "Invalid JSON"]

sendJson(status, data) == [status |-> status, body |-> JSONstringify(data, 0)]
sendError(status, message) == sendJson(status, [error |-> message])

createSessionHandler(ss, raw, t, rnd) ==
  LET p == parseBody(raw)
  IN IF ~p.ok THEN [res |-> sendError(400, p.message), sessions |-> ss]
     ELSE IF Falsy(p.value, "url")
       THEN [res |-> sendError(400, "url is required"), sessions |-> ss]
     ELSE LET body == p.value
              c == createSession(ss, body.url, Has(body, "projectId"),
                                 IF Has(body, "projectId") THEN body.projectId ELSE <<>>,
                                 t, rnd)
          IN [res |-> sendJson(201, c.ret), sessions |-> c.sessions]

listSessionsHandler(ss) == sendJson(200, listSessions(ss))

getSessionHandler(ss, as, id) ==
  LET session == getSessionWithAnnotations(ss, as, id)
  IN IF ~session.found THEN sendError(404, "Session not found")
     ELSE sendJson(200, session.value)

addAnnotationHandler(ss, as, id, raw, t, rnd) ==
  LET p == parseBody(raw)
  IN IF ~p.ok THEN [res |-> sendError(400, p.message), annotations |-> as]
     ELSE IF Falsy(p.value, "comment") \/ Falsy(p.value, "element")
             \/ Falsy(p.value, "elementPath")
       THEN [res |-> sendError(400, "comment, element, and elementPath are required"),
             annotations |-> as]
     ELSE LET r == addAnnotation(ss, as, id, p.value, t, rnd)
          IN IF ~r.ret.found
               THEN [res |-> sendError(404, "Session not found"), annotations |-> r.annotations]
               ELSE [res |-> sendJson(201, r.ret.value), annotations |-> r.annotations]

\* PATCH /annotations/:id that stores the body as a new annotation when the
\* id is absent
updateAnnotationHandler_upserts(as, id, raw, t) ==
  LET p == parseBody(raw)
  IN IF ~p.ok THEN [res |-> sendError(400, p.message), annotations |-> as]
     ELSE LET existing == getAnnotation(as, id)
              created == ObjectAssign(p.value, [updatedAt |-> t])
          IN IF ~existing.found
               THEN [res |-> sendJson(200, created), annotations |-> MapSet(as, id, created)]
               ELSE LET r == updateAnnotation(as, id, p.value, t)
                    IN [res |-> sendJson(200, r.ret.value), annotations |-> r.annotations]

updateAnnotationHandler(as, id, raw, t) ==
  LET p == parseBody(raw)
  IN IF ~p.ok THEN [res |-> sendError(400, p.message), annotations |-> as]
     ELSE LET existing == getAnnotation(as, id)
          IN IF ~existing.found
               THEN [res |-> sendError(404, "Annotation not found"), annotations |-> as]
               ELSE LET r == updateAnnotation(as, id, p.value, t)
                    IN [res |-> sendJson(200, r.ret.value), annotations |-> r.annotations]

getAnnotationHandler(as, id) ==
  LET annotation == getAnnotation(as, id)
  IN IF ~annotation.found THEN sendError(404, "Annotation not found")
     ELSE sendJson(200, annotation.value)

\* request bodies the browser side can send
Url == <<"http://x">>
ProjectId == <<"proj">>
SessionBodies ==
  { RawJson([url |-> Url]), RawJson([url |-> Url, projectId |-> ProjectId]),
    RawEmpty, RawInvalid }

RequiredFields == [comment |-> <<"fix button">>, element |-> <<"<button>">>,
                   elementPath |-> <<"/div/button">>]
ForeignId == <<MaxClock, 0>>
AnnotationBodies ==
  { RawJson(RequiredFields),
    RawJson(Pick(RequiredFields, {"element", "elementPath"})),
    RawJson(Pick(RequiredFields, {"comment", "elementPath"})),
    RawJson(Pick(RequiredFields, {"comment", "element"})),
    RawJson(ObjectAssign(RequiredFields,
              [id |-> ForeignId, sessionId |-> ForeignId,
               status |-> "resolved", createdAt |-> MaxClock])),
    RawInvalid }

AnnotationStatus == {"pending", "acknowledged", "resolved", "dismissed"}
PatchBodies ==
  { RawJson([status |-> s]) : s \in AnnotationStatus }
  \cup { RawJson([thread |-> <<>>]), RawJson([sessionId |-> ForeignId]),
         RawJson([id |-> ForeignId, createdAt |-> MaxClock]),
         RawJson([comment |-> <<"reworded">>]), RawInvalid }

ThreadOf(a) == IF Has(a, "thread") THEN a.thread ELSE <<>>
ThreadsBounded(as) == \A i \in 1..Len(as) : Len(ThreadOf(as[i].value)) <= MaxThread

\* ------------------------------------------------- index.ts (MCP tools)
NotAString == <<"typeof", "is", "number">>
IsString(v) == v # NotAString

\* z.object({...}).parse(args): required keys are strings, optional keys are
\* strings when present, unknown keys are stripped; otherwise it throws
ZodParse(required, optional, args) ==
  IF /\ \A k \in required : Has(args, k) /\ IsString(args[k])
     /\ \A k \in optional : Has(args, k) => IsString(args[k])
    THEN [ok |-> TRUE, value |-> Pick(args, required \cup optional)]
    ELSE [ok |-> FALSE, message |-> <<"ZodError">>]

GetPendingSchema(args) == ZodParse({"sessionId"}, {}, args)
AcknowledgeSchema(args) == ZodParse({"annotationId"}, {}, args)
ResolveSchema(args) == ZodParse({"annotationId"}, {"summary"}, args)
DismissSchema(args) == ZodParse({"annotationId", "reason"}, {}, args)
ReplySchema(args) == ZodParse({"annotationId", "message"}, {}, args)
GetSessionSchema(args) == ZodParse({"sessionId"}, {}, args)

\* the text of a result is JSON text (success) or a plain message (error)
success(data) == [content |-> <<[type |-> "text", text |-> JSONstringify(data, 2)]>>]
error(message) ==
  [content |-> <<[type |-> "text", text |-> [plain |-> message]]>>, isError |-> TRUE]

Throw(message, as) == [threw |-> TRUE, message |-> message, annotations |-> as]
Return(res, as) == [threw |-> FALSE, res |-> res, annotations |-> as]

SessionSummaryKeys == {"id", "url", "status", "createdAt"}
PendingKeys == {"id", "comment", "element", "elementPath", "url", "intent", "severity",
                "timestamp", "nearbyText", "reactComponents"}
ArrayMap(arr, F(_)) == [i \in 1..Len(arr) |-> F(arr[i])]

handleTool_list_sessions(ss, as) ==
  LET Summary(s) == Pick(s, SessionSummaryKeys)
  IN Return(success([sessions |-> ArrayMap(listSessions(ss), Summary)]), as)

\* agentation_get_session answering from getSession, without the annotations
handleTool_get_session_noAnnotations(ss, as, args) ==
  LET p == GetSessionSchema(args)
  IN IF ~p.ok THEN Throw(p.message, as)
     ELSE LET session == getSession(ss, p.value.sessionId)
          IN IF ~session.found
               THEN Return(error(<<"Session not found: ", p.value.sessionId>>), as)
               ELSE Return(success(session.value), as)

handleTool_get_session(ss, as, args) ==
  LET p == GetSessionSchema(args)
  IN IF ~p.ok THEN Throw(p.message, as)
     ELSE LET session == getSessionWithAnnotations(ss, as, p.value.sessionId)
          IN IF ~session.found
               THEN Return(error(<<"Session not found: ", p.value.sessionId>>), as)
               ELSE Return(success(session.value), as)

handleTool_get_pending(as, args) ==
  LET p == GetPendingSchema(args)
  IN IF ~p.ok THEN Throw(p.message, as)
     ELSE LET pending == getPendingAnnotations(as, p.value.sessionId)
              Projection(a) == Pick(a, PendingKeys)
          IN Return(success([count |-> Len(pending),
                             annotations |-> ArrayMap(pending, Projection)]), as)

handleTool_acknowledge(as, args, t) ==
  LET p == AcknowledgeSchema(args)
  IN IF ~p.ok THEN Throw(p.message, as)
     ELSE LET annotationId == p.value.annotationId
              r == updateAnnotationStatus(as, annotationId, "acknowledged", FALSE, "agent", t)
          IN IF ~r.ret.found
               THEN Return(error(<<"Annotation not found: ", annotationId>>), r.annotations)
               ELSE Return(success([acknowledged |-> TRUE, annotationId |-> annotationId]),
                           r.annotations)

\* agentation_resolve whose thread append has not run when the call returns
handleTool_resolve_appendDeferred(as, args, t, rnd) ==
  LET p == ResolveSchema(args)
  IN IF ~p.ok THEN Throw(p.message, as)
     ELSE LET annotationId == p.value.annotationId
              r == updateAnnotationStatus(as, annotationId, "resolved", TRUE, "agent", t)
          IN IF ~r.ret.found
               THEN Return(error(<<"Annotation not found: ", annotationId>>), r.annotations)
               ELSE Return(success([resolved |-> TRUE, annotationId |-> annotationId]
                                     @@ Pick(p.value, {"summary"})),
                           r.annotations)

\* agentation_resolve appending whenever the summary property is present
handleTool_resolve_appendsWhenPresent(as, args, t, rnd) ==
  LET p == ResolveSchema(args)
  IN IF ~p.ok THEN Throw(p.message, as)
     ELSE LET annotationId == p.value.annotationId
              r == updateAnnotationStatus(as, annotationId, "resolved", TRUE, "agent", t)
          IN IF ~r.ret.found
               THEN Return(error(<<"Annotation not found: ", annotationId>>), r.annotations)
               ELSE LET payload == [resolved |-> TRUE, annotationId |-> annotationId]
                                     @@ Pick(p.value, {"summary"})
                    IN IF Has(p.value, "summary")
                         THEN Return(success(payload),
                                addThreadMessage(r.annotations, annotationId, "agent",
                                  <<"Resolved: ">> \o p.value.summary, t, rnd).annotations)
                         ELSE Return(success(payload), r.annotations)

handleTool_resolve(as, args, t, rnd) ==
  LET p == ResolveSchema(args)
  IN IF ~p.ok THEN Throw(p.message, as)
     ELSE LET annotationId == p.value.annotationId
              r == updateAnnotationStatus(as, annotationId, "resolved", TRUE, "agent", t)
          IN IF ~r.ret.found
               THEN Return(error(<<"Annotation not found: ", annotationId>>), r.annotations)
               ELSE LET payload == [resolved |-> TRUE, annotationId |-> annotationId]
                                     @@ Pick(p.value, {"summary"})
                    IN IF ~Falsy(p.value, "summary")
                         THEN Return(success(payload),
                                addThreadMessage(r.annotations, annotationId, "agent",
                                  <<"Resolved: ">> \o p.value.summary, t, rnd).annotations)
                         ELSE Return(success(payload), r.annotations)

\* agentation_dismiss that checks the reason only after the status update
handleTool_dismiss_validatesLate(as, args, t, rnd) ==
  LET p0 == AcknowledgeSchema(args)
  IN IF ~p0.ok THEN Throw(p0.message, as)
     ELSE LET annotationId == p0.value.annotationId
              r == updateAnnotationStatus(as, annotationId, "dismissed", TRUE, "agent", t)
              p == DismissSchema(args)
          IN IF ~p.ok THEN Throw(p.message, r.annotations)
             ELSE IF ~r.ret.found
               THEN Return(error(<<"Annotation not found: ", annotationId>>), r.annotations)
               ELSE Return(success([dismissed |-> TRUE, annotationId |-> annotationId,
                                    reason |-> p.value.reason]),
                      addThreadMessage(r.annotations, annotationId, "agent",
                        <<"Dismissed: ">> \o p.value.reason, t, rnd).annotations)

\* agentation_dismiss that records the status but not the reason
handleTool_dismiss_noThread(as, args, t, rnd) ==
  LET p == DismissSchema(args)
  IN IF ~p.ok THEN Throw(p.message, as)
     ELSE LET annotationId == p.value.annotationId
              reason == p.value.reason
              r == updateAnnotationStatus(as, annotationId, "dismissed", TRUE, "agent", t)
          IN IF ~r.ret.found
               THEN Return(error(<<"Annotation not found: ", annotationId>>), r.annotations)
               ELSE Return(success([dismissed |-> TRUE, annotationId |-> annotationId,
                                    reason |-> reason]), r.annotations)

handleTool_dismiss(as, args, t, rnd) ==
  LET p == DismissSchema(args)
  IN IF ~p.ok THEN Throw(p.message, as)
     ELSE LET annotationId == p.value.annotationId
              reason == p.value.reason
              r == updateAnnotationStatus(as, annotationId, "dismissed", TRUE, "agent", t)
          IN IF ~r.ret.found
               THEN Return(error(<<"Annotation not found: ", annotationId>>), r.annotations)
               ELSE Return(success([dismissed |-> TRUE, annotationId |-> annotationId,
                                    reason |-> reason]),
                      addThreadMessage(r.annotations, annotationId, "agent",
                        <<"Dismissed: ">> \o reason, t, rnd).annotations)

\* agentation_reply that also marks the annotation acknowledged
handleTool_reply_acknowledges(as, args, t, rnd) ==
  LET p == ReplySchema(args)
  IN IF ~p.ok THEN Throw(p.message, as)
     ELSE LET annotationId == p.value.annotationId
              message == p.value.message
              r == updateAnnotationStatus(as, annotationId, "acknowledged", FALSE, "agent", t)
          IN IF ~r.ret.found
               THEN Return(error(<<"Annotation not found: ", annotationId>>), as)
               ELSE Return(success([replied |-> TRUE, annotationId |-> annotationId,
                                    message |-> message]),
                      addThreadMessage(r.annotations, annotationId, "agent", message,
                                       t, rnd).annotations)

handleTool_reply(as, args, t, rnd) ==
  LET p == ReplySchema(args)
  IN IF ~p.ok THEN Throw(p.message, as)
     ELSE LET annotationId == p.value.annotationId
              message == p.value.message
              annotation == getAnnotation(as, annotationId)
          IN IF ~annotation.found
               THEN Return(error(<<"Annotation not found: ", annotationId>>), as)
               ELSE Return(success([replied |-> TRUE, annotationId |-> annotationId,
                                    message |-> message]),
                      addThreadMessage(as, annotationId, "agent", message, t, rnd).annotations)

handleTool(ss, as, name, args, t, rnd) ==
  CASE name = "agentation_list_sessions" -> handleTool_list_sessions(ss, as)
    [] name = "agentation_get_session" -> handleTool_get_session(ss, as, args)
    [] name = "agentation_get_pending" -> handleTool_get_pending(as, args)
    [] name = "agentation_acknowledge" -> handleTool_acknowledge(as, args, t)
    [] name = "agentation_resolve" -> handleTool_resolve(as, args, t, rnd)
    [] name = "agentation_dismiss" -> handleTool_dismiss(as, args, t, rnd)
    [] name = "agentation_reply" -> handleTool_reply(as, args, t, rnd)
    [] OTHER -> Return(error(<<"Unknown tool: ", name>>), as)

\* the request handler without the try/catch: a throw leaves as it is
CallToolRequestHandler_noCatch(ss, as, name, args, t, rnd) ==
  LET h == handleTool(ss, as, name, args, t, rnd)
  IN IF h.threw THEN [res |-> [threw |-> TRUE, message |-> h.message],
                      annotations |-> h.annotations]
     ELSE [res |-> h.res, annotations |-> h.annotations]

\* server.setRequestHandler(CallToolRequestSchema, ...)
CallToolRequestHandler(ss, as, name, args, t, rnd) ==
  LET h == handleTool(ss, as, name, args, t, rnd)
  IN IF h.threw THEN [res |-> error(h.message), annotations |-> h.annotations]
     ELSE [res |-> h.res, annotations |-> h.annotations]

\* ids a client sends: those of the stored entries and one that may be absent
RequestIds == MapKeys(sessions) \cup MapKeys(annotations) \cup {ForeignId}

\* arguments the agent runtime can send
SessionArgs ==
  { [sessionId |-> i] : i \in RequestIds } \cup { EmptyObject, [sessionId |-> NotAString] }
AnnotationArgs ==
  { [annotationId |-> i] : i \in RequestIds } \cup { EmptyObject, [annotationId |-> NotAString] }
ResolveArgs ==
  AnnotationArgs
  \cup { [annotationId |-> i, summary |-> s] : i \in RequestIds, s \in {<<"done">>, <<>>} }
  \cup { [annotationId |-> ForeignId, summary |-> NotAString] }
DismissArgs ==
  { [annotationId |-> i, reason |-> <<"wontfix">>] : i \in RequestIds }
  \cup { EmptyObject, [annotationId |-> ForeignId],
          [annotationId |-> ForeignId, reason |-> NotAString] }
ReplyArgs ==
  { [annotationId |-> i, message |-> <<"why?">>] : i \in RequestIds }
  \cup { EmptyObject, [annotationId |-> ForeignId],
          [annotationId |-> ForeignId, message |-> NotAString] }

\* ------------------------------------------------ index.ts (CLI, main)
DefaultPort == 4747
PortLimit == 65536
\* parseInt(s, 10) of the argument strings used here
ParseInt(s) ==
  CASE s = "8080" -> [nan |-> FALSE, value |-> 8080]
    [] s = "70000" -> [nan |-> FALSE, value |-> 70000]
    [] OTHER -> [nan |-> TRUE]
ArgStrings == {"--port", "--mcp-only", "8080", "70000", "abc"}
RECURSIVE ArgLists(_)
ArgLists(n) ==
  IF n = 0 THEN {<<>>}
  ELSE ArgLists(n - 1)
         \cup {Append(a, s) : a \in {b \in ArgLists(n - 1) : Len(b) = n - 1}, s \in ArgStrings}

\* ------------------------------------------------------------- behaviour
\* the store is empty when the module is loaded; the process of the request
\* behaviour was started without arguments and main has run
EmptyStore ==
  /\ sessions = <<>>
  /\ annotations = <<>>
  /\ now = 0
  /\ req = [route |-> "none"]
  /\ resp = [status |-> 0]
  /\ nreq = 0
  /\ inflight = <<>>
Init ==
  /\ EmptyStore
  /\ argv = <<>>
  /\ argi = 1
  /\ port = DefaultPort
  /\ pc = "done"
  /\ httpServer = TRUE
  /\ mcpServer = TRUE

\* the clock read by Date.now() and new Date() advances between requests
Tick ==
  /\ now < MaxClock
  /\ now' = now + 1
  /\ UNCHANGED <<sessions, annotations, req, resp, nreq, inflight>>
  /\ UNCHANGED cli

\* a request whose handler starts with `await parseBody(req)`: the router has
\* matched the route and its params, and the handler waits for the body
AwaitBody(route, id) == [await |-> "parseBody", route |-> route, id |-> id]
NoId == <<>>
RemoveAt(seq, i) == SubSeq(seq, 1, i - 1) \o SubSeq(seq, i + 1, Len(seq))
Awaiting(route) == {i \in 1..Len(inflight) : inflight[i].route = route}

\* the server dispatches a request with a body; other requests can be served
\* before its body has arrived
HttpDispatch ==
  \E r \in {AwaitBody("POST /sessions", NoId)}
           \cup {AwaitBody("POST /sessions/:id/annotations", id) : id \in RequestIds}
           \cup {AwaitBody("PATCH /annotations/:id", id) : id \in RequestIds} :
    /\ httpServer
    /\ Len(inflight) < MaxInflight
    /\ nreq + Len(inflight) < MaxRequests
    /\ inflight' = Append(inflight, r)
    /\ UNCHANGED <<sessions, annotations, now, req, resp, nreq>>
    /\ UNCHANGED cli

\* from the end of the body (or from dispatch, for a handler without an
\* await) a request is served to completion: no handler yields between its
\* first store call and its response
Request(r) ==
  /\ nreq < MaxRequests
  /\ nreq' = nreq + 1
  /\ now' = now
  /\ req' = r
  /\ IF Has(r, "route") THEN httpServer ELSE mcpServer
  /\ UNCHANGED cli

HttpRequest(route, id, raw) == [route |-> route, id |-> id, body |-> raw]
ToolRequest(name, args) == [name |-> name, arguments |-> args]

CreateSessionRequest(i, raw, rnd) ==
  LET h == createSessionHandler(sessions, raw, now, rnd)
  IN /\ Request(HttpRequest("POST /sessions", NoId, raw))
     /\ inflight' = RemoveAt(inflight, i)
     /\ Len(h.sessions) <= MaxSessions
     /\ resp' = h.res
     /\ sessions' = h.sessions
     /\ UNCHANGED annotations

ListSessionsRequest ==
  /\ Request(HttpRequest("GET /sessions", NoId, RawEmpty))
  /\ resp' = listSessionsHandler(sessions)
  /\ UNCHANGED <<sessions, annotations, inflight>>

GetSessionRequest(id) ==
  /\ Request(HttpRequest("GET /sessions/:id", id, RawEmpty))
  /\ resp' = getSessionHandler(sessions, annotations, id)
  /\ UNCHANGED <<sessions, annotations, inflight>>

AddAnnotationRequest(i, raw, rnd) ==
  LET id == inflight[i].id
      h == addAnnotationHandler(sessions, annotations, id, raw, now, rnd)
  IN /\ Request(HttpRequest("POST /sessions/:id/annotations", id, raw))
     /\ inflight' = RemoveAt(inflight, i)
     /\ Len(h.annotations) <= MaxAnnotations
     /\ resp' = h.res
     /\ annotations' = h.annotations
     /\ UNCHANGED sessions

UpdateAnnotationRequest(i, raw) ==
  LET id == inflight[i].id
      h == updateAnnotationHandler(annotations, id, raw, now)
  IN /\ Request(HttpRequest("PATCH /annotations/:id", id, raw))
     /\ inflight' = RemoveAt(inflight, i)
     /\ resp' = h.res
     /\ annotations' = h.annotations
     /\ UNCHANGED sessions

GetAnnotationRequest(id) ==
  /\ Request(HttpRequest("GET /annotations/:id", id, RawEmpty))
  /\ resp' = getAnnotationHandler(annotations, id)
  /\ UNCHANGED <<sessions, annotations, inflight>>

CallTool(name, args, rnd) ==
  LET h == CallToolRequestHandler(sessions, annotations, name, args, now, rnd)
  IN /\ Request(ToolRequest(name, args))
     /\ ThreadsBounded(h.annotations)
     /\ resp' = h.res
     /\ annotations' = h.annotations
     /\ UNCHANGED <<sessions, inflight>>

HttpCreateSession ==
  \E i \in Awaiting("POST /sessions"), raw \in SessionBodies, rnd \in RandomSuffixes :
    CreateSessionRequest(i, raw, rnd)

HttpListSessions == ListSessionsRequest

HttpGetSession == \E id \in RequestIds : GetSessionRequest(id)

HttpAddAnnotation ==
  \E i \in Awaiting("POST /sessions/:id/annotations"), raw \in AnnotationBodies,
     rnd \in RandomSuffixes :
    AddAnnotationRequest(i, raw, rnd)

HttpUpdateAnnotation ==
  \E i \in Awaiting("PATCH /annotations/:id"), raw \in PatchBodies :
    UpdateAnnotationRequest(i, raw)

HttpGetAnnotation == \E id \in RequestIds : GetAnnotationRequest(id)

McpListSessions == CallTool("agentation_list_sessions", EmptyObject, 0)

McpGetSession == \E args \in SessionArgs : CallTool("agentation_get_session", args, 0)

McpGetPending == \E args \in SessionArgs : CallTool("agentation_get_pending", args, 0)

McpAcknowledge == \E args \in AnnotationArgs : CallTool("agentation_acknowledge", args, 0)

McpResolve ==
  \E args \in ResolveArgs, rnd \in RandomSuffixes : CallTool("agentation_resolve", args, rnd)

McpDismiss ==
  \E args \in DismissArgs, rnd \in RandomSuffixes : CallTool("agentation_dismiss", args, rnd)

McpReply ==
  \E args \in ReplyArgs, rnd \in RandomSuffixes : CallTool("agentation_reply", args, rnd)

McpUnknownTool == CallTool("agentation_delete", EmptyObject, 0)

Next ==
  \/ Tick
  \/ HttpDispatch
  \/ HttpCreateSession
  \/ HttpListSessions
  \/ HttpGetSession
  \/ HttpAddAnnotation
  \/ HttpUpdateAnnotation
  \/ HttpGetAnnotation
  \/ McpListSessions
  \/ McpGetSession
  \/ McpGetPending
  \/ McpAcknowledge
  \/ McpResolve
  \/ McpDismiss
  \/ McpReply
  \/ McpUnknownTool

Spec == Init /\ [][Next]_vars

\* ----------------------------------------------------- behaviour of main
CliInit ==
  /\ EmptyStore
  /\ argv \in ArgLists(MaxArgs)
  /\ argi = 1
  /\ port = DefaultPort
  /\ pc = "parseArgs"
  /\ httpServer = FALSE
  /\ mcpServer = FALSE

\* one iteration of the loop of parseArgs
ParseArgsStep ==
  /\ pc = "parseArgs"
  /\ argi <= Len(argv)
  /\ IF argv[argi] = "--port" /\ argi + 1 <= Len(argv)
       THEN LET parsed == ParseInt(argv[argi + 1])
            IN /\ port' = IF ~parsed.nan /\ parsed.value > 0 /\ parsed.value < PortLimit
                             THEN parsed.value ELSE port
               /\ argi' = argi + 2
       ELSE /\ port' = port
            /\ argi' = argi + 1
  /\ UNCHANGED <<argv, pc, httpServer, mcpServer>>
  /\ UNCHANGED store

ParseArgsReturn ==
  /\ pc = "parseArgs"
  /\ argi > Len(argv)
  /\ pc' = "startHttpServer"
  /\ UNCHANGED <<argv, argi, port, httpServer, mcpServer>>
  /\ UNCHANGED store

StartHttpServer ==
  /\ pc = "startHttpServer"
  /\ httpServer' = TRUE
  /\ pc' = "startMcpServer"
  /\ UNCHANGED <<argv, argi, port, mcpServer>>
  /\ UNCHANGED store

StartMcpServer ==
  /\ pc = "startMcpServer"
  /\ mcpServer' = TRUE
  /\ pc' = "done"
  /\ UNCHANGED <<argv, argi, port, httpServer>>
  /\ UNCHANGED store

CliNext ==
  \/ ParseArgsStep
  \/ ParseArgsReturn
  \/ StartHttpServer
  \/ StartMcpServer

CliSpec == CliInit /\ [][CliNext]_vars

\* ------------------------------------------------------------ properties
AnnotationKeys == MapKeys(annotations)
AnnotationAt(as, k) == MapGet(as, k)
Resolved(a) == a.status \in {"resolved", "dismissed"}
IsPrefix(s, t) == Len(s) <= Len(t) /\ SubSeq(t, 1, Len(s)) = s
Served(route) == nreq' = nreq + 1 /\ Has(req', "route") /\ req'.route = route
Called(name) == nreq' = nreq + 1 /\ Has(req', "name") /\ req'.name = name
LastServed(route) == Has(req, "route") /\ req.route = route
LastCalled(name) == Has(req, "name") /\ req.name = name
ToolPayload(res) == JSONparse(res.content[1].text)
\* the entry under key k after the step is the object that was there before
\* the step, not an annotation that the step has created
SameAnnotation(k) ==
  /\ MapHas(annotations', k)
  /\ ~(/\ Served("POST /sessions/:id/annotations")
       /\ resp'.status = 201
       /\ JSONparse(resp'.body).id = k)

\* C1: ids generated within one process are pairwise distinct: a session or
\* annotation that a creation returns has an id that no earlier entry of its
\* map has (and a new session is active), so a creation never overwrites.
C1_IdsPairwiseDistinct ==
  [][ /\ Served("POST /sessions") /\ resp'.status = 201
           => /\ JSONparse(resp'.body).status = "active"
              /\ ~MapHas(sessions, JSONparse(resp'.body).id)
              /\ Len(sessions') = Len(sessions) + 1
      /\ Served("POST /sessions/:id/annotations") /\ resp'.status = 201
           => /\ ~MapHas(annotations, JSONparse(resp'.body).id)
              /\ Len(annotations') = Len(annotations) + 1 ]_vars

\* C2: an annotation whose status is resolved or dismissed has both
\* resolvedAt and resolvedBy set, in every reachable state.
C2_ResolvedIsStamped ==
  \A k \in AnnotationKeys :
    Resolved(AnnotationAt(annotations, k))
      => /\ Has(AnnotationAt(annotations, k), "resolvedAt")
         /\ Has(AnnotationAt(annotations, k), "resolvedBy")

\* C3: the thread of an annotation is append-only: after any step the thread
\* of every annotation still stored has its earlier thread as a prefix.
C3_ThreadAppendOnly ==
  [][ \A k \in AnnotationKeys :
        SameAnnotation(k)
          => IsPrefix(ThreadOf(AnnotationAt(annotations, k)),
                      ThreadOf(AnnotationAt(annotations', k))) ]_vars

\* C4: every change of an annotation's status is one of the five transitions
\* of the state machine; resolved and dismissed are never left.
ValidTransitions ==
  { <<"pending", "acknowledged">>, <<"pending", "resolved">>, <<"pending", "dismissed">>,
    <<"acknowledged", "resolved">>, <<"acknowledged", "dismissed">> }
C4_OnlyValidTransitions ==
  [][ \A k \in AnnotationKeys :
        SameAnnotation(k)
          => LET before == AnnotationAt(annotations, k).status
                 after == AnnotationAt(annotations', k).status
             IN before # after => <<before, after>> \in ValidTransitions ]_vars

\* C5: getPendingAnnotations(sessionId) returns exactly the stored annotations
\* of that session whose status is pending, each once, and the tool
\* agentation_get_pending reports their number and their projections.
PendingEntries(as, sid) ==
  { i \in 1..Len(as) : as[i].value.sessionId = sid /\ as[i].value.status = "pending" }
C5_PendingExact ==
  \A sid \in Ids :
    LET pending == getPendingAnnotations(annotations, sid)
        want == PendingEntries(annotations, sid)
        tool == CallToolRequestHandler(sessions, annotations, "agentation_get_pending",
                                       [sessionId |-> sid], now, 0).res
    IN /\ Len(pending) = Cardinality(want)
       /\ Elems(pending) = { annotations[i].value : i \in want }
       /\ ~Has(tool, "isError")
       /\ ToolPayload(tool).count = Cardinality(want)
       /\ Elems(ToolPayload(tool).annotations)
            = { Pick(annotations[i].value, PendingKeys) : i \in want }
C5_Witness ==
  \E i, j \in 1..Len(annotations) :
    /\ MapHas(sessions, annotations[i].value.sessionId)
    /\ annotations[i].value.sessionId = annotations[j].value.sessionId
    /\ annotations[i].value.status = "pending"
    /\ annotations[j].value.status # "pending"

\* C6: read-after-write across adapters: the annotation that POST
\* /sessions/S/annotations returns is listed by agentation_get_pending for S
\* right away, and stays listed after every step that leaves it stored with
\* status pending.
PendingIds(as, sid) ==
  { a.id : a \in Elems(ToolPayload(handleTool_get_pending(as, [sessionId |-> sid]).res).annotations) }
C6_ReadAfterWrite ==
  [][ /\ Served("POST /sessions/:id/annotations") /\ resp'.status = 201
           => JSONparse(resp'.body).id \in PendingIds(annotations', req'.id)
      /\ \A k \in AnnotationKeys, sid \in Ids :
           /\ k \in PendingIds(annotations, sid)
           /\ SameAnnotation(k)
           /\ AnnotationAt(annotations', k).status = "pending"
           => k \in PendingIds(annotations', sid) ]_vars

\* C7: agentation_get_session(S) and GET /sessions/S give the same outcome in
\* every reachable state, and a mutation made through one adapter is visible
\* to a read made through the other in the state the mutation leaves.
SameSessionOutcome(ss, as, sid) ==
  LET tool == CallToolRequestHandler(ss, as, "agentation_get_session",
                                     [sessionId |-> sid], 0, 0).res
      http == getSessionHandler(ss, as, sid)
  IN IF MapHas(ss, sid)
       THEN /\ ~Has(tool, "isError")
            /\ http.status = 200
            /\ ToolPayload(tool) = JSONparse(http.body)
       ELSE Has(tool, "isError") /\ http.status = 404
C7_AdaptersAgree ==
  /\ [](\A sid \in Ids : SameSessionOutcome(sessions, annotations, sid))
  /\ [][ /\ Served("POST /sessions/:id/annotations") /\ resp'.status = 201
              => LET tool == CallToolRequestHandler(sessions', annotations',
                               "agentation_get_session", [sessionId |-> req'.id], now, 0).res
                 IN JSONparse(resp'.body) \in Elems(ToolPayload(tool).annotations)
         /\ Called("agentation_acknowledge") /\ ~Has(resp', "isError")
              => LET http == getAnnotationHandler(annotations', req'.arguments.annotationId)
                 IN http.status = 200 /\ JSONparse(http.body).status = "acknowledged" ]_vars
C7_Witness ==
  /\ LastCalled("agentation_get_session")
  /\ ~Has(resp, "isError")
  /\ Len(ToolPayload(resp).annotations) >= 1

\* C8: adding an annotation to a session id that is not in the store yields
\* not-found (addAnnotation returns undefined, the route answers 404 when the
\* required fields are present) and leaves both maps unchanged.
HasRequiredFields(raw) ==
  /\ parseBody(raw).ok
  /\ \A k \in {"comment", "element", "elementPath"} : ~Falsy(parseBody(raw).value, k)
C8_AddToAbsentSession ==
  [][ Served("POST /sessions/:id/annotations") /\ ~MapHas(sessions, req'.id)
        => /\ \A rnd \in RandomSuffixes :
                parseBody(req'.body).ok
                  => ~addAnnotation(sessions, annotations, req'.id,
                                    parseBody(req'.body).value, now, rnd).ret.found
           /\ resp'.status = IF HasRequiredFields(req'.body) THEN 404 ELSE 400
           /\ annotations' = annotations
           /\ sessions' = sessions ]_vars
C8_Witness ==
  /\ LastServed("POST /sessions/:id/annotations")
  /\ HasRequiredFields(req.body)
  /\ resp.status = 404
  /\ Len(annotations) >= 1

\* C9: a partial update (PATCH /annotations/:id, any body) never changes the
\* annotation's id, sessionId or createdAt.
C9_PatchKeepsIdentity ==
  [][ Served("PATCH /annotations/:id") /\ MapHas(annotations, req'.id)
        => \A f \in {"id", "sessionId", "createdAt"} :
             AnnotationAt(annotations', req'.id)[f] = AnnotationAt(annotations, req'.id)[f] ]_vars

\* C10: the sessionId of every stored annotation is the id of a session in the
\* store.
C10_ReferentialIntegrity ==
  \A k \in AnnotationKeys : MapHas(sessions, AnnotationAt(annotations, k).sessionId)

\* C11: a session is immutable once created except for status and updatedAt:
\* after any step, the session stored under an id still has the id, url,
\* createdAt and projectId it had before the step.
SessionIdentityKeys == {"id", "url", "createdAt", "projectId"}
C11_SessionImmutable ==
  [][ \A k \in MapKeys(sessions) :
        /\ MapHas(sessions', k)
        /\ Pick(MapGet(sessions', k), SessionIdentityKeys)
             = Pick(MapGet(sessions, k), SessionIdentityKeys) ]_vars

\* the step served a call of the tool whose arguments pass the tool's schema
\* and name an annotation that is in the store
CalledOnExisting(name, Schema(_)) ==
  /\ Called(name)
  /\ Schema(req'.arguments).ok
  /\ MapHas(annotations, req'.arguments.annotationId)
\* the thread after the step is the thread before it plus one agent message
AppendedOne(before, after, content) ==
  /\ Len(after) = Len(before) + 1
  /\ SubSeq(after, 1, Len(before)) = before
  /\ after[Len(after)].role = "agent"
  /\ after[Len(after)].content = content
  /\ after[Len(after)].timestamp = now

AnnotationTools == {"agentation_acknowledge", "agentation_resolve",
                    "agentation_dismiss", "agentation_reply"}
SessionTools == {"agentation_get_session", "agentation_get_pending"}
ToolNames == AnnotationTools \cup SessionTools \cup {"agentation_list_sessions"}
ToolSchema(name, args) ==
  CASE name = "agentation_get_session" -> GetSessionSchema(args)
    [] name = "agentation_get_pending" -> GetPendingSchema(args)
    [] name = "agentation_acknowledge" -> AcknowledgeSchema(args)
    [] name = "agentation_resolve" -> ResolveSchema(args)
    [] name = "agentation_dismiss" -> DismissSchema(args)
    [] name = "agentation_reply" -> ReplySchema(args)
    [] OTHER -> [ok |-> TRUE, value |-> EmptyObject]
ToolCallStep == nreq' = nreq + 1 /\ Has(req', "name")
IsResultPayload(res) ==
  /\ Has(res, "content")
  /\ Len(res.content) = 1
  /\ res.content[1].type = "text"
IsErrorResult(res) == IsResultPayload(res) /\ Has(res, "isError") /\ res.isError = TRUE
StoreUnchanged == sessions' = sessions /\ annotations' = annotations
\* the call asks for a session or an annotation that is not in the store
StoreNotFound ==
  /\ ToolCallStep
  /\ ToolSchema(req'.name, req'.arguments).ok
  /\ \/ req'.name = "agentation_get_session" /\ ~MapHas(sessions, req'.arguments.sessionId)
     \/ req'.name \in AnnotationTools /\ ~MapHas(annotations, req'.arguments.annotationId)

\* C14: every tool call, whatever the name and the arguments, returns a result
\* payload; a call that asks for an absent session (get_session) or an absent
\* annotation (acknowledge, resolve, dismiss, reply), and a call of an unknown
\* tool, returns a result with isError = true and leaves the store unchanged.
C14_NeverThrows ==
  [][ /\ ToolCallStep => IsResultPayload(resp')
      /\ StoreNotFound => IsErrorResult(resp') /\ StoreUnchanged
      /\ ToolCallStep /\ req'.name \notin ToolNames
           => IsErrorResult(resp') /\ StoreUnchanged ]_vars
C14_Witness ==
  /\ Has(req, "name")
  /\ req.name \in AnnotationTools
  /\ ToolSchema(req.name, req.arguments).ok
  /\ ~MapHas(annotations, req.arguments.annotationId)
  /\ IsErrorResult(resp)
  /\ Len(annotations) >= 1

\* C15: a tool call whose arguments fail the tool's schema (a required
\* argument missing or not a string, an optional one not a string) returns an
\* error result and leaves every session and annotation unchanged.
C15_ValidationBeforeStore ==
  [][ ToolCallStep /\ ~ToolSchema(req'.name, req'.arguments).ok
        => IsErrorResult(resp') /\ StoreUnchanged ]_vars
C15_Witness ==
  /\ Has(req, "name")
  /\ ~ToolSchema(req.name, req.arguments).ok
  /\ Has(req.arguments, "annotationId")
  /\ MapHas(annotations, req.arguments.annotationId)
  /\ IsErrorResult(resp)

\* C16: POST /sessions/:id/annotations answers 400 when comment, element or
\* elementPath is missing (whether or not the session exists), 404 when the
\* three are present and the session is absent, and 201 otherwise; the store
\* changes only in the 201 case, by exactly one new annotation.
C16_AddAnnotationStatus ==
  [][ Served("POST /sessions/:id/annotations")
        => /\ resp'.status = IF ~HasRequiredFields(req'.body) THEN 400
                             ELSE IF ~MapHas(sessions, req'.id) THEN 404 ELSE 201
           /\ sessions' = sessions
           /\ IF resp'.status = 201
                THEN LET new == JSONparse(resp'.body)
                     IN /\ ~MapHas(annotations, new.id)
                        /\ annotations' = Append(annotations, [key |-> new.id, value |-> new])
                ELSE annotations' = annotations ]_vars

\* C17: when the process is started with --mcp-only, main does not start the
\* HTTP server and starts the MCP server; without the flag it starts both.
McpOnly == \E i \in 1..Len(argv) : argv[i] = "--mcp-only"
C17_McpOnlySkipsHttp ==
  pc = "done" => /\ mcpServer
                 /\ httpServer <=> ~McpOnly

\* C18: round trip: fetching the id that a session creation has just returned
\* gives a session equal to the created one in every field (id, url, status
\* active, createdAt, projectId), and fetching an id that was never created
\* gives the not-found indicator.
C18_CreateThenGet ==
  /\ [][ Served("POST /sessions") /\ resp'.status = 201
           => LET created == JSONparse(resp'.body)
                  body == parseBody(req'.body).value
              IN /\ getSession(sessions', created.id) = Found(created)
                 /\ created.status = "active"
                 /\ created.url = body.url
                 /\ created.createdAt = now
                 /\ Pick(created, {"projectId"}) = Pick(body, {"projectId"})
                 /\ DOMAIN created \subseteq SessionIdentityKeys \cup {"status"} ]_vars
  /\ [](\A id \in Ids \ MapKeys(sessions) : getSession(sessions, id) = NotFound)
C18_Witness ==
  /\ LastServed("POST /sessions")
  /\ resp.status = 201
  /\ Has(JSONparse(resp.body), "projectId")
  /\ getSession(sessions, JSONparse(resp.body).id) = Found(JSONparse(resp.body))
  /\ Ids \ MapKeys(sessions) # {}

\* C19: last write wins: updateAnnotationStatus on an annotation in the store
\* succeeds whatever the annotation's current status is; afterwards the
\* annotation has the requested status, and every other annotation and every
\* session is as before.
OthersUnchanged(before, after, id) ==
  /\ Len(after) = Len(before)
  /\ \A i \in 1..Len(before) :
       /\ after[i].key = before[i].key
       /\ before[i].key # id => after[i] = before[i]
StatusTools == {"agentation_acknowledge", "agentation_resolve", "agentation_dismiss"}
RequestedStatus(name) ==
  CASE name = "agentation_acknowledge" -> "acknowledged"
    [] name = "agentation_resolve" -> "resolved"
    [] name = "agentation_dismiss" -> "dismissed"
C19_LastWriteWins ==
  /\ [](\A id \in AnnotationKeys, status \in AnnotationStatus :
          LET r == updateAnnotationStatus(annotations, id, status, FALSE, "agent", now)
          IN /\ r.ret.found
             /\ r.ret.value.status = status
             /\ AnnotationAt(r.annotations, id) = r.ret.value
             /\ OthersUnchanged(annotations, r.annotations, id))
  /\ [][ \A name \in StatusTools :
           CalledOnExisting(name, LAMBDA args : ToolSchema(name, args))
             => /\ ~Has(resp', "isError")
                /\ AnnotationAt(annotations', req'.arguments.annotationId).status
                     = RequestedStatus(name)
                /\ OthersUnchanged(annotations, annotations', req'.arguments.annotationId)
                /\ sessions' = sessions ]_vars
C19_Witness ==
  /\ LastCalled("agentation_acknowledge")
  /\ ~Has(resp, "isError")
  /\ LET a == AnnotationAt(annotations, req.arguments.annotationId)
     IN a.status = "acknowledged" /\ Has(a, "resolvedAt")

\* C20: whatever fields the body of POST /sessions/:id/annotations carries
\* (id, sessionId, status and createdAt included), the annotation created has
\* status pending, the session id of the route and the id generated by the
\* call, and it is stored under that id.
C20_BodyCannotOverride ==
  [][ Served("POST /sessions/:id/annotations") /\ resp'.status = 201
        => LET new == JSONparse(resp'.body)
           IN /\ new.status = "pending"
              /\ new.sessionId = req'.id
              /\ new.id \in {generateId(now, rnd) : rnd \in RandomSuffixes}
              /\ new.createdAt = now
              /\ MapHas(annotations', new.id)
              /\ AnnotationAt(annotations', new.id) = new ]_vars
C20_Witness ==
  /\ LastServed("POST /sessions/:id/annotations")
  /\ resp.status = 201
  /\ Has(parseBody(req.body).value, "id")
  /\ parseBody(req.body).value.id # JSONparse(resp.body).id
  /\ parseBody(req.body).value.sessionId # JSONparse(resp.body).sessionId
  /\ parseBody(req.body).value.status # JSONparse(resp.body).status

\* the annotations that an HTTP response shows
ShownAnnotations(r, res) ==
  IF ~Has(r, "route") THEN {}
  ELSE IF r.route = "GET /sessions/:id" /\ res.status = 200
    THEN Elems(JSONparse(res.body).annotations)
  ELSE IF \/ r.route = "GET /annotations/:id" /\ res.status = 200
          \/ r.route = "PATCH /annotations/:id" /\ res.status = 200
          \/ r.route = "POST /sessions/:id/annotations" /\ res.status = 201
    THEN {JSONparse(res.body)}
  ELSE {}
LastMessage(a) == ThreadOf(a)[Len(ThreadOf(a))]

ClosedSession(ss, id) == updateSessionStatus(ss, id, "closed", now).sessions
C23_SessionStatusActive ==
  /\ [](\A i \in 1..Len(sessions) : sessions[i].value.status = "active")
  /\ [][ Served("POST /sessions/:id/annotations") /\ MapHas(sessions, req'.id)
           => /\ sessions' = sessions
              /\ \E rnd \in RandomSuffixes :
                   LET h == addAnnotationHandler(ClosedSession(sessions, req'.id),
                              annotations, req'.id, req'.body, now, rnd)
                   IN resp' = h.res /\ annotations' = h.annotations ]_vars
C23_Witness ==
  /\ LastCalled("agentation_dismiss")
  /\ ~Has(resp, "isError")
  /\ Len(sessions) > 1
  /\ LET a == AnnotationAt(annotations, req.arguments.annotationId)
     IN MapGet(sessions, a.sessionId).status = "active"

\* C24: agentation_get_pending called with a string sessionId never returns an
\* error result and leaves the store unchanged; its count is the number of
\* annotations it lists, and for a sessionId that no stored session has the
\* count is 0 and the list is empty.
C24_GetPendingNeverErrors ==
  [][ Called("agentation_get_pending") /\ GetPendingSchema(req'.arguments).ok
        => /\ IsResultPayload(resp')
           /\ ~Has(resp', "isError")
           /\ StoreUnchanged
           /\ ToolPayload(resp').count = Len(ToolPayload(resp').annotations)
           /\ ~MapHas(sessions, req'.arguments.sessionId)
                => /\ ToolPayload(resp').count = 0
                   /\ ToolPayload(resp').annotations = <<>> ]_vars

\* C25: the step that completes a PATCH /annotations/:id whose body parses
\* answers 404 and leaves the store unchanged when the id is absent from the
\* store that step starts from, and otherwise answers 200 with the stored
\* annotation overlaid by the body and a fresh updatedAt, stores that under the
\* id and changes nothing else: check and update read the same store, whatever
\* was served while the request waited for its body.
C25_PatchNotFoundOrMerged ==
  [][ Served("PATCH /annotations/:id") /\ parseBody(req'.body).ok
        => IF ~MapHas(annotations, req'.id)
             THEN resp'.status = 404 /\ StoreUnchanged
             ELSE LET merged == ObjectAssign(ObjectAssign(AnnotationAt(annotations, req'.id),
                                                          parseBody(req'.body).value),
                                             [updatedAt |-> now])
                  IN /\ resp'.status = 200
                     /\ JSONparse(resp'.body) = merged
                     /\ AnnotationAt(annotations', req'.id) = merged
                     /\ OthersUnchanged(annotations, annotations', req'.id)
                     /\ sessions' = sessions ]_vars
C25_Witness ==
  /\ LastServed("PATCH /annotations/:id")
  /\ resp.status = 200
  /\ parseBody(req.body).ok
  /\ Has(parseBody(req.body).value, "status")
  /\ JSONparse(resp.body).status = parseBody(req.body).value.status
  /\ ThreadOf(JSONparse(resp.body)) # <<>>
  /\ AnnotationAt(annotations, req.id) = JSONparse(resp.body)

====
